---- MODULE Spec2Model ----
(***************************************************************************)
(* A model of the sensors_ncas_toolkit client library: the CoreApi base    *)
(* class (core.py), the Devices accessor (devices.py), the Sites accessor  *)
(* (sites.py), the UserInfo accessor (user.py) and the attribute lists of  *)
(* constants.py.                                                           *)
(*                                                                         *)
(* Python values are records [t, b, s, n]: t is the Python type, b the     *)
(* value of a bool, s the characters of a str, n the value of an int.      *)
(* A dict is the sequence of its [k, v] items in insertion order.          *)
(* An optional JSON document is the empty sequence (None) or <<doc>>.      *)
(***************************************************************************)
EXTENDS Integers, Sequences, FiniteSets, TLC

VARIABLES
    cls,              \* the class of the accessor object: "Devices", "Sites", "UserInfo"
    api_key,          \* CoreApi.api_key
    headers,          \* CoreApi.headers
    all_device_data,  \* Devices.all_device_data
    all_site_data,    \* Sites.all_site_data
    user_info,        \* UserInfo.user_info
    user_groups,      \* UserInfo.user_groups
    call,             \* the method call being made, or the last one made
    outcome,          \* what that call did: pending, returned or raised
    sent,             \* the HTTP requests that call issued, in order
    received,         \* the status code the backend answered each of them with
    parsed,           \* the JSON documents that call read from the answers, in order
    printed           \* the lines that call wrote to the standard output

vars == <<cls, api_key, headers, all_device_data, all_site_data, user_info, user_groups,
          call, outcome, sent, received, parsed, printed>>

-----------------------------------------------------------------------------
(* Bounds of the model.                                                    *)

\* most attributes other than the visibility flags in a dict handed to add_device
MaxOtherAttrs == 3

\* most entities in a collection the backend answers with
MaxEntities == 2

-----------------------------------------------------------------------------
(* Python values.                                                          *)

PyNone == [t |-> "NoneType", b |-> FALSE, s |-> <<>>, n |-> 0]
PyBool(x) == [t |-> "bool", b |-> x, s |-> <<>>, n |-> 0]
PyStr(chars) == [t |-> "str", b |-> FALSE, s |-> chars, n |-> 0]
PyInt(i) == [t |-> "int", b |-> FALSE, s |-> <<>>, n |-> i]

\* bool(value): None, False, "" and 0 are falsy
Truthy(value) ==
    CASE value.t = "NoneType" -> FALSE
      [] value.t = "bool" -> value.b
      [] value.t = "str" -> Len(value.s) > 0
      [] value.t = "int" -> value.n # 0

UpperCase == <<"A","B","C","D","E","F","G","H","I","J","K","L","M",
               "N","O","P","Q","R","S","T","U","V","W","X","Y","Z">>
LowerCase == <<"a","b","c","d","e","f","g","h","i","j","k","l","m",
               "n","o","p","q","r","s","t","u","v","w","x","y","z">>

LowerChar(c) ==
    IF \E i \in 1..Len(UpperCase) : UpperCase[i] = c
    THEN LowerCase[CHOOSE i \in 1..Len(UpperCase) : UpperCase[i] = c]
    ELSE c

\* a lower() that leaves the string as it is
LowerKeepsCase(chars) == chars

\* str.lower()
Lower(chars) == [i \in 1..Len(chars) |-> LowerChar(chars[i])]

\* the items of a dict: key in d, d[key], d.keys(), d[key] = value
HasKey(d, key) == \E i \in 1..Len(d) : d[i].k = key
DictGet(d, key) == d[CHOOSE i \in 1..Len(d) : d[i].k = key].v
Keys(d) == [i \in 1..Len(d) |-> d[i].k]
DictSet(d, key, value) ==
    IF HasKey(d, key)
    THEN [i \in 1..Len(d) |-> IF d[i].k = key THEN [k |-> key, v |-> value] ELSE d[i]]
    ELSE Append(d, [k |-> key, v |-> value])

\* x in list
InList(x, list) == \E i \in 1..Len(list) : list[i] = x

-----------------------------------------------------------------------------
(* What a call does.                                                       *)

Pending == [kind |-> "pending", exc |-> "", msg |-> "", names |-> <<>>,
            status |-> 0, value |-> <<>>]
Return(value) == [kind |-> "return", exc |-> "", msg |-> "", names |-> <<>>,
                  status |-> 0, value |-> value]
Raise(exc, msg, names, status) ==
    [kind |-> "raise", exc |-> exc, msg |-> msg, names |-> names,
     status |-> status, value |-> <<>>]

-----------------------------------------------------------------------------
(* constants.py                                                            *)

DEVICE_ATTRIBUTES ==
    <<"description", "short_name", "long_name", "serial_number",
      "manufacturer_uri", "manufacturer_name", "device_type_uri",
      "device_type_name", "status_uri", "status_name", "model",
      "inventory_number", "schema_version", "identifer_type", "website",
      "group_ids", "is_private", "is_internal", "is_public", "keywords",
      "country">>

MIN_PRIVATE_DEVICE_ATTRIBUTES ==
    <<"short_name", "manufacturer_name", "is_private", "is_internal", "is_public">>

\* a list for internal devices that leaves out the visibility flags
MIN_INTERNAL_WITHOUT_FLAGS == <<"short_name", "manufacturer_name", "group_ids">>

MIN_INTERNAL_DEVICE_ATTRIBUTES == MIN_PRIVATE_DEVICE_ATTRIBUTES \o <<"group_ids">>

MIN_PUBLIC_DEVICE_ATTRIBUTES == MIN_INTERNAL_DEVICE_ATTRIBUTES \o <<>>

SITE_ATTRIBUTES ==
    <<"label", "geometry", "description", "epsg_code", "is_internal",
      "is_public", "group_ids", "street", "street_number", "city", "zip_code",
      "country", "building", "room", "site_type_uri", "site_type_name",
      "site_usage_uri", "site_usage_name", "elevation", "elevation_datum_name",
      "elevation_datum_uri", "website", "keywords">>

-----------------------------------------------------------------------------
(* Devices._check_device_visibility                                        *)

\* the keys the loop visits, in the order it visits them
VisibilityKeys == <<"is_public", "is_internal", "is_private">>

TrueStrings == {<<"t","r","u","e">>, <<"1">>}
FalseStrings == {<<"f","a","l","s","e">>, <<"0">>}

\* a coercion that reads every string but "true" and "1" as False
CoerceFlagLenient(key, value) ==
    IF value.t = "str"
    THEN [ok |-> TRUE, b |-> Lower(value.s) \in TrueStrings, err |-> Pending]
    ELSE IF value.t # "bool"
    THEN [ok |-> FALSE, b |-> FALSE,
          err |-> Raise("TypeError", "must be boolean or a boolean string", <<key>>, 0)]
    ELSE [ok |-> TRUE, b |-> value.b, err |-> Pending]

\* lines 58-69: one flag's value as a boolean, or the error it raises
CoerceFlag(key, value) ==
    IF value.t = "str"
    THEN IF Lower(value.s) \in TrueStrings
         THEN [ok |-> TRUE, b |-> TRUE, err |-> Pending]
         ELSE IF Lower(value.s) \in FalseStrings
         THEN [ok |-> TRUE, b |-> FALSE, err |-> Pending]
         ELSE [ok |-> FALSE, b |-> FALSE,
               err |-> Raise("ValueError", "Invalid boolean string value", <<key>>, 0)]
    ELSE IF value.t # "bool"
    THEN [ok |-> FALSE, b |-> FALSE,
          err |-> Raise("TypeError", "must be boolean or a boolean string", <<key>>, 0)]
    ELSE [ok |-> TRUE, b |-> value.b, err |-> Pending]

\* a result that falls back to private when no flag is true
VisibilityResultDefault(true_keys) ==
    IF Len(true_keys) > 1
    THEN Raise("ValueError", "Multiple visibilities defined as true", true_keys, 0)
    ELSE IF Len(true_keys) = 0
    THEN Return("is_private")
    ELSE Return(true_keys[1])

\* a result whose conflict test is off by one
VisibilityResultOffByOne(true_keys) ==
    IF Len(true_keys) > 2
    THEN Raise("ValueError", "Multiple visibilities defined as true", true_keys, 0)
    ELSE IF Len(true_keys) = 0
    THEN Raise("ValueError", "No visibilities defined as true", <<>>, 0)
    ELSE Return(true_keys[1])

\* lines 74-81: the class, or the error, that the list of true keys gives
VisibilityResult(true_keys) ==
    IF Len(true_keys) > 1
    THEN Raise("ValueError", "Multiple visibilities defined as true", true_keys, 0)
    ELSE IF Len(true_keys) = 0
    THEN Raise("ValueError", "No visibilities defined as true", <<>>, 0)
    ELSE Return(true_keys[1])

\* lines 55-72: the loop over the three keys, from the i-th on
RECURSIVE VisibilityLoop(_, _, _)
VisibilityLoop(input_dict, i, true_keys) ==
    IF i > Len(VisibilityKeys)
    THEN VisibilityResult(true_keys)
    ELSE LET key == VisibilityKeys[i] IN
         IF ~HasKey(input_dict, key)
         THEN Raise("KeyError", "", <<key>>, 0)
         ELSE LET c == CoerceFlag(key, DictGet(input_dict, key)) IN
              IF ~c.ok
              THEN c.err
              ELSE VisibilityLoop(input_dict, i + 1,
                                  IF c.b THEN Append(true_keys, key) ELSE true_keys)

check_device_visibility(input_dict) == VisibilityLoop(input_dict, 1, <<>>)

-----------------------------------------------------------------------------
(* CoreApi.__init__                                                        *)

\* self.api_key = api_key or os.getenv("SENSORS_API_KEY")
ResolveKey(explicit, env) == IF Truthy(explicit) THEN explicit ELSE env

MakeHeaders(key) ==
    [accept |-> "application/vnd.api+json",
     x_apikey |-> key,
     content_type |-> "application/vnd.api+json"]

\* a call: the method, its arguments, and the attributes dict as the call
\* leaves it (add_device writes the defaulted flags into the caller's dict)
Call(op, id, name, attributes) ==
    [op |-> op, id |-> id, name |-> name, attributes |-> attributes,
     mutated |-> attributes]

base_url == "https://pid-sms-tst.bodc.uk/backend/api/v1"

\* one requests.get / requests.post / requests.patch call
Request(method, path, id, hdrs, body) ==
    [method |-> method, url |-> [base |-> base_url, path |-> path, id |-> id],
     headers |-> hdrs, body |-> body]

-----------------------------------------------------------------------------
(* The backend: the status codes and the collections it answers with.      *)

Statuses == {200, 201, 404}

Ids == {1, 2}
Names == {"A", "B"}

DeviceEntities == {[id |-> i, attributes |-> [short_name |-> n]] : i \in Ids, n \in Names}
SiteEntities == {[id |-> i, attributes |-> [label |-> n]] : i \in Ids, n \in Names}

\* the JSON documents a collection GET is answered with
Collections(entities) ==
    {[data |-> list] : list \in UNION {[1..n -> entities] : n \in 0..MaxEntities}}

NoBody == [data |-> <<>>]

\* the answers to a fetch-all GET: a collection with status 200, or another
\* status, whose body is never read; no answer if the GET is not sent
FetchAnswers(requested, entities) ==
    IF requested
    THEN {[status |-> 200, body |-> b] : b \in Collections(entities)}
         \cup {[status |-> st, body |-> NoBody] : st \in Statuses \ {200}}
    ELSE {[status |-> 0, body |-> NoBody]}

\* the document a call reads from an answer, if it reads it
ParsedIf(read, doc) == IF read THEN <<doc>> ELSE <<>>

\* the statuses the backend may answer a request with; none if none is sent
Answers(requested) == IF requested THEN Statuses ELSE {0}

-----------------------------------------------------------------------------
(* Devices.add_device                                                      *)

Range(list) == {list[i] : i \in 1..Len(list)}

\* the orders a list made from a set may have
Orders(S) == {f \in [1..Cardinality(S) -> S] : \A i, j \in 1..Cardinality(S) : f[i] = f[j] => i = j}

\* the keys add_device defaults, in the order it visits them
FillKeys == <<"is_private", "is_internal", "is_public">>

\* a fill that makes a device private when no flag says otherwise
DefaultFillPrivate(attributes, i) ==
    LET none == \A j \in 1..Len(FillKeys) : ~HasKey(attributes, FillKeys[j])
        fill(d, key, value) == IF HasKey(d, key) THEN d ELSE DictSet(d, key, value)
    IN  fill(fill(fill(attributes, "is_private", PyBool(none)),
                  "is_internal", PyBool(FALSE)),
             "is_public", PyBool(FALSE))

\* lines 342-344: every missing flag is written into the dict as False
RECURSIVE DefaultFill(_, _)
DefaultFill(attributes, i) ==
    IF i > Len(FillKeys)
    THEN attributes
    ELSE DefaultFill(IF ~HasKey(attributes, FillKeys[i])
                     THEN DictSet(attributes, FillKeys[i], PyBool(FALSE))
                     ELSE attributes,
                     i + 1)

\* a lookup that asks of a public device what it asks of a private one
MinReqsPublicAsPrivate(vis) ==
    IF vis = "is_internal" THEN MIN_INTERNAL_DEVICE_ATTRIBUTES
    ELSE MIN_PRIVATE_DEVICE_ATTRIBUTES

\* lines 347-352
MinReqs(vis) ==
    IF vis = "is_private" THEN MIN_PRIVATE_DEVICE_ATTRIBUTES
    ELSE IF vis = "is_internal" THEN MIN_INTERNAL_DEVICE_ATTRIBUTES
    ELSE MIN_PUBLIC_DEVICE_ATTRIBUTES

\* lines 354-360: the loop over the dict's keys, from the i-th on; it raises at
\* the first key that is not allowed and collects the required keys it sees
RECURSIVE CreateAttrLoop(_, _, _, _)
CreateAttrLoop(keys, i, min_reqs, given_min_reqs) ==
    IF i > Len(keys)
    THEN [ok |-> TRUE, given |-> given_min_reqs, err |-> Pending]
    ELSE IF ~InList(keys[i], DEVICE_ATTRIBUTES)
    THEN [ok |-> FALSE, given |-> given_min_reqs,
          err |-> Raise("ValueError", "Invalid attribute given", <<keys[i]>>, 0)]
    ELSE CreateAttrLoop(keys, i + 1, min_reqs,
                        IF InList(keys[i], min_reqs)
                        THEN Append(given_min_reqs, keys[i])
                        ELSE given_min_reqs)

\* line 361
RequirementsMet(min_reqs, given_min_reqs) == Len(min_reqs) = Len(given_min_reqs)

\* line 362: set(min_reqs) - set(given_min_reqs)
Missing(min_reqs, given_min_reqs) == Range(min_reqs) \ Range(given_min_reqs)

\* lines 366-378
PostDevice(hdrs, attributes) ==
    Request("POST", "/devices", 0, hdrs,
            <<[type |-> "device", id |-> 0, attributes |-> attributes]>>)

PostOutcome(status) ==
    IF status # 201
    THEN Raise("Exception", "Failed to add new device", <<>>, status)
    ELSE Return(PyNone)

\* an add_device() that checks the attribute names before it classifies the
\* visibility
add_device_names_first(hdrs, attributes, status, order) ==
    LET filled == DefaultFill(attributes, 1)
        vis == check_device_visibility(filled)
        names == CreateAttrLoop(Keys(filled), 1, MIN_PUBLIC_DEVICE_ATTRIBUTES, <<>>)
    IN  IF ~names.ok
        THEN [sent |-> <<>>, received |-> <<>>, out |-> names.err, mutated |-> filled]
        ELSE IF vis.kind = "raise"
        THEN [sent |-> <<>>, received |-> <<>>, out |-> vis, mutated |-> filled]
        ELSE LET min_reqs == MinReqs(vis.value)
                 loop == CreateAttrLoop(Keys(filled), 1, min_reqs, <<>>)
             IN  IF ~RequirementsMet(min_reqs, loop.given)
                 THEN [sent |-> <<>>, received |-> <<>>, mutated |-> filled,
                       out |-> Raise("ValueError", "Missing required attributes", order, 0)]
                 ELSE [sent |-> <<PostDevice(hdrs, filled)>>, received |-> <<status>>,
                       out |-> PostOutcome(status), mutated |-> filled]

\* add_device(attributes), the backend answering the POST, if one is sent,
\* with status, and the missing names listed in the order given: the requests
\* sent, the statuses received, the outcome and the dict as the call leaves it
add_device(hdrs, attributes, status, order) ==
    LET filled == DefaultFill(attributes, 1)
        vis == check_device_visibility(filled)
        min_reqs == MinReqs(vis.value)
        loop == CreateAttrLoop(Keys(filled), 1, min_reqs, <<>>)
    IN  IF vis.kind = "raise"
        THEN [sent |-> <<>>, received |-> <<>>, out |-> vis, mutated |-> filled]
        ELSE IF ~loop.ok
        THEN [sent |-> <<>>, received |-> <<>>, out |-> loop.err, mutated |-> filled]
        ELSE IF ~RequirementsMet(min_reqs, loop.given)
        THEN [sent |-> <<>>, received |-> <<>>, mutated |-> filled,
              out |-> Raise("ValueError", "Missing required attributes", order, 0)]
        ELSE [sent |-> <<PostDevice(hdrs, filled)>>, received |-> <<status>>,
              out |-> PostOutcome(status), mutated |-> filled]

\* the orders in which add_device may list the missing names of a dict
MissingOrders(attributes) ==
    LET filled == DefaultFill(attributes, 1)
        vis == check_device_visibility(filled)
        min_reqs == MinReqs(vis.value)
        loop == CreateAttrLoop(Keys(filled), 1, min_reqs, <<>>)
    IN  IF vis.kind = "return" /\ loop.ok /\ ~RequirementsMet(min_reqs, loop.given)
        THEN Orders(Missing(min_reqs, loop.given))
        ELSE {<<>>}

\* whether add_device reaches its POST
Posts(attributes) ==
    LET filled == DefaultFill(attributes, 1)
        vis == check_device_visibility(filled)
        min_reqs == MinReqs(vis.value)
        loop == CreateAttrLoop(Keys(filled), 1, min_reqs, <<>>)
    IN  vis.kind = "return" /\ loop.ok /\ RequirementsMet(min_reqs, loop.given)

AddDevice(attributes) ==
    /\ cls = "Devices"
    /\ \E status \in Answers(Posts(attributes)), order \in MissingOrders(attributes) :
          LET r == add_device(headers, attributes, status, order)
          IN  /\ call' = [Call("add_device", 0, "", attributes) EXCEPT !.mutated = r.mutated]
              /\ outcome' = r.out
              /\ sent' = r.sent
              /\ received' = r.received
              /\ parsed' = <<>>
    /\ UNCHANGED <<cls, api_key, headers, all_device_data, all_site_data,
                   user_info, user_groups, printed>>

-----------------------------------------------------------------------------
(* Devices: fetching and updating.  Each operator gives what the method    *)
(* does when the backend answers as its last arguments say: the requests   *)
(* sent, the statuses received, the outcome and the snapshot it leaves.    *)

\* lines 93-97, get_devices()
get_devices(hdrs, snapshot, status, body) ==
    [sent |-> <<Request("GET", "/devices", 0, hdrs, <<>>)>>,
     received |-> <<status>>,
     out |-> IF status # 200
             THEN Raise("Exception", "Failed to get devices", <<>>, status)
             ELSE Return(PyNone),
     data |-> IF status # 200 THEN snapshot ELSE <<body>>]

\* a get_device_by_id() that takes every status below 300 for a success
get_device_by_id_any2xx(hdrs, device_id, status, entity) ==
    [sent |-> <<Request("GET", "/devices/{id}", device_id, hdrs, <<>>)>>,
     received |-> <<status>>,
     out |-> IF status >= 300
             THEN Raise("Exception", "Failed to get device", <<>>, status)
             ELSE Return(entity)]

\* lines 114-121, get_device_by_id(device_id)
get_device_by_id(hdrs, device_id, status, entity) ==
    [sent |-> <<Request("GET", "/devices/{id}", device_id, hdrs, <<>>)>>,
     received |-> <<status>>,
     out |-> IF status # 200
             THEN Raise("Exception", "Failed to get device", <<>>, status)
             ELSE Return(entity)]

\* a scan that returns the last device with the name instead of the first
RECURSIVE FindDeviceLast(_, _, _)
FindDeviceLast(devices, i, device_name) ==
    IF i > Len(devices)
    THEN Raise("ValueError", "Failed to find device with name", <<device_name>>, 0)
    ELSE LET later == FindDeviceLast(devices, i + 1, device_name)
         IN  IF later.kind = "return"
             THEN later
             ELSE IF devices[i].attributes.short_name = device_name
             THEN Return(devices[i])
             ELSE later

\* lines 140-144: the first device of the list, from the i-th on, with the name
RECURSIVE FindDevice(_, _, _)
FindDevice(devices, i, device_name) ==
    IF i > Len(devices)
    THEN Raise("ValueError", "Failed to find device with name", <<device_name>>, 0)
    ELSE IF devices[i].attributes.short_name = device_name
    THEN Return(devices[i])
    ELSE FindDevice(devices, i + 1, device_name)

\* a get_device_by_name() that fetches the collection on every call
get_device_by_name_refetching(hdrs, snapshot, device_name, status, body) ==
    LET fetch == get_devices(hdrs, snapshot, status, body)
    IN  IF fetch.out.kind = "raise"
        THEN fetch
        ELSE [fetch EXCEPT !.out = FindDevice(fetch.data[1].data, 1, device_name)]

\* lines 138-144, get_device_by_name(device_name)
get_device_by_name(hdrs, snapshot, device_name, status, body) ==
    LET fetch == IF snapshot = <<>>
                 THEN get_devices(hdrs, snapshot, status, body)
                 ELSE [sent |-> <<>>, received |-> <<>>, out |-> Return(PyNone),
                       data |-> snapshot]
    IN  IF fetch.out.kind = "raise"
        THEN fetch
        ELSE [fetch EXCEPT !.out = FindDevice(fetch.data[1].data, 1, device_name)]

\* the characters of a string; a name is one character long
Chars(str) ==
    CASE str = "" -> <<>>
      [] str = "AB" -> <<"A", "B">>
      [] OTHER -> <<str>>

\* re.match(pattern, string), for a pattern of literal characters and ".":
\* the pattern matches at the start of the string
ReMatch(pattern, string) ==
    LET p == Chars(pattern)
        c == Chars(string)
    IN  /\ Len(p) <= Len(c)
        /\ \A i \in 1..Len(p) : p[i] = "." \/ p[i] = c[i]

\* lines 161-170, get_devices_by_name(device_name_pattern)
get_devices_by_name(hdrs, snapshot, device_name_pattern, status, body) ==
    LET fetch == IF snapshot = <<>>
                 THEN get_devices(hdrs, snapshot, status, body)
                 ELSE [sent |-> <<>>, received |-> <<>>, out |-> Return(PyNone),
                       data |-> snapshot]
        devices == SelectSeq(fetch.data[1].data,
                             LAMBDA device :
                                 ReMatch(device_name_pattern, device.attributes.short_name))
    IN  IF fetch.out.kind = "raise"
        THEN fetch
        ELSE [fetch EXCEPT !.out =
                 IF devices = <<>>
                 THEN Raise("ValueError", "Failed to find device with name",
                            <<device_name_pattern>>, 0)
                 ELSE Return(devices)]

\* an update that sends the PATCH without looking at the attribute names
update_device_by_id_unchecked(hdrs, device_id, attributes, status) ==
    [sent |-> <<Request("PATCH", "/devices/{id}", device_id, hdrs,
                        <<[type |-> "device", id |-> device_id,
                           attributes |-> attributes]>>)>>,
     received |-> <<status>>,
     out |-> IF status # 200
             THEN Raise("Exception", "Failed to update device", <<>>, status)
             ELSE Return(PyNone)]

\* lines 279-303, update_device_by_id(device_id, attributes)
update_device_by_id(hdrs, device_id, attributes, status) ==
    LET invalid_attrs ==
            SelectSeq(Keys(attributes), LAMBDA attr : ~InList(attr, DEVICE_ATTRIBUTES))
    IN  IF Len(invalid_attrs) > 0
        THEN [sent |-> <<>>, received |-> <<>>,
              out |-> Raise("ValueError", "Invalid attributes given for updating",
                            invalid_attrs, 0)]
        ELSE [sent |-> <<Request("PATCH", "/devices/{id}", device_id, hdrs,
                                 <<[type |-> "device", id |-> device_id,
                                    attributes |-> attributes]>>)>>,
              received |-> <<status>>,
              out |-> IF status # 200
                      THEN Raise("Exception", "Failed to update device", <<>>, status)
                      ELSE Return(PyNone)]

\* lines 320-321, update_device_by_name(device_name, attributes)
update_device_by_name(hdrs, snapshot, device_name, attributes, status, body, patch_status) ==
    LET lookup == get_device_by_name(hdrs, snapshot, device_name, status, body)
        update == update_device_by_id(hdrs, lookup.out.value.id, attributes, patch_status)
    IN  IF lookup.out.kind = "raise"
        THEN lookup
        ELSE [sent |-> lookup.sent \o update.sent,
              received |-> lookup.received \o update.received,
              out |-> update.out,
              data |-> lookup.data]

\* the call as it stands before any request: nothing sent, snapshot as it was
Untouched(snapshot) ==
    [sent |-> <<>>, received |-> <<>>, out |-> Return(PyNone), data |-> snapshot]

\* a check of id against name that lets every fetched device pass
CheckDeviceIdAndNameLenient(hdrs, snapshot, device_id, device_name, by_id) ==
    IF device_id # <<>> /\ device_name # <<>>
    THEN LET device == get_device_by_id(hdrs, device_id[1], by_id.status, by_id.entity)
         IN  [sent |-> device.sent, received |-> device.received, data |-> snapshot,
              out |-> IF device.out.kind = "raise" THEN device.out ELSE Return(PyNone)]
    ELSE Untouched(snapshot)

\* lines 195-198: with both an id and a name, the device is fetched by id and
\* its short_name compared with the name.  An argument left None is <<>>, a
\* given one <<value>>.
CheckDeviceIdAndName(hdrs, snapshot, device_id, device_name, by_id) ==
    IF device_id # <<>> /\ device_name # <<>>
    THEN LET device == get_device_by_id(hdrs, device_id[1], by_id.status, by_id.entity)
         IN  [sent |-> device.sent, received |-> device.received, data |-> snapshot,
              out |-> IF device.out.kind = "raise"
                      THEN device.out
                      ELSE IF device.out.value.attributes.short_name # device_name[1]
                      THEN Raise("ValueError", "Device id and name do not match", <<>>, 0)
                      ELSE Return(PyNone)]
    ELSE Untouched(snapshot)

\* lines 195-216, get_device_properties(device_id, device_name), the backend
\* answering the fetch by id with by_id, the fetch-all with fetch and the
\* properties request with status and body
get_device_properties(hdrs, snapshot, device_id, device_name, by_id, fetch, status, body) ==
    LET check == CheckDeviceIdAndName(hdrs, snapshot, device_id, device_name, by_id)
        lookup == IF device_name # <<>>
                  THEN get_device_by_name(hdrs, snapshot, device_name[1],
                                          fetch.status, fetch.body)
                  ELSE Untouched(snapshot)
    IN  IF check.out.kind = "raise"
        THEN check
        ELSE IF device_id = <<>> /\ device_name = <<>>
        THEN [Untouched(snapshot) EXCEPT !.out =
                 Raise("ValueError", "Must provide either device_id or device_name",
                       <<>>, 0)]
        ELSE IF lookup.out.kind = "raise"
        THEN [sent |-> check.sent \o lookup.sent,
              received |-> check.received \o lookup.received,
              out |-> lookup.out,
              data |-> lookup.data]
        ELSE LET id == IF device_name # <<>> THEN lookup.out.value.id ELSE device_id[1]
             IN  [sent |-> check.sent \o lookup.sent
                           \o <<Request("GET", "/device-properties?filter[device_id]={id}",
                                        id, hdrs, <<>>)>>,
                  received |-> check.received \o lookup.received \o <<status>>,
                  out |-> IF status # 200
                          THEN Raise("Exception", "Failed to get device properties",
                                     <<>>, status)
                          ELSE Return(body),
                  data |-> lookup.data]

-----------------------------------------------------------------------------
(* Sites: fetching and updating.                                           *)

\* lines 42-46, get_sites()
get_sites(hdrs, snapshot, status, body) ==
    [sent |-> <<Request("GET", "/sites", 0, hdrs, <<>>)>>,
     received |-> <<status>>,
     out |-> IF status # 200
             THEN Raise("Exception", "Failed to get sites", <<>>, status)
             ELSE Return(PyNone),
     data |-> IF status # 200 THEN snapshot ELSE <<body>>]

\* lines 63-70, get_site_by_id(site_id)
get_site_by_id(hdrs, site_id, status, entity) ==
    [sent |-> <<Request("GET", "/sites/{id}", site_id, hdrs, <<>>)>>,
     received |-> <<status>>,
     out |-> IF status # 200
             THEN Raise("Exception", "Failed to get site", <<>>, status)
             ELSE Return(entity)]

\* lines 89-93: the first site of the list, from the i-th on, with the label
RECURSIVE FindSite(_, _, _)
FindSite(sites, i, site_name) ==
    IF i > Len(sites)
    THEN Raise("ValueError", "Failed to find site with name", <<site_name>>, 0)
    ELSE IF sites[i].attributes.label = site_name
    THEN Return(sites[i])
    ELSE FindSite(sites, i + 1, site_name)

\* lines 87-93, get_site_by_name(site_name)
get_site_by_name(hdrs, snapshot, site_name, status, body) ==
    LET fetch == IF snapshot = <<>>
                 THEN get_sites(hdrs, snapshot, status, body)
                 ELSE [sent |-> <<>>, received |-> <<>>, out |-> Return(PyNone),
                       data |-> snapshot]
    IN  IF fetch.out.kind = "raise"
        THEN fetch
        ELSE [fetch EXCEPT !.out = FindSite(fetch.data[1].data, 1, site_name)]

\* lines 111-120, get_sites_by_name(site_name_pattern)
get_sites_by_name(hdrs, snapshot, site_name_pattern, status, body) ==
    LET fetch == IF snapshot = <<>>
                 THEN get_sites(hdrs, snapshot, status, body)
                 ELSE [sent |-> <<>>, received |-> <<>>, out |-> Return(PyNone),
                       data |-> snapshot]
        sites == SelectSeq(fetch.data[1].data,
                           LAMBDA site : ReMatch(site_name_pattern, site.attributes.label))
    IN  IF fetch.out.kind = "raise"
        THEN fetch
        ELSE [fetch EXCEPT !.out =
                 IF sites = <<>>
                 THEN Raise("ValueError", "Failed to find site matching pattern",
                            <<site_name_pattern>>, 0)
                 ELSE Return(sites)]

\* lines 181-205, update_site_by_id(site_id, attributes)
update_site_by_id(hdrs, site_id, attributes, status) ==
    LET invalid_attrs ==
            SelectSeq(Keys(attributes), LAMBDA attr : ~InList(attr, SITE_ATTRIBUTES))
    IN  IF Len(invalid_attrs) > 0
        THEN [sent |-> <<>>, received |-> <<>>,
              out |-> Raise("ValueError", "Invalid attributes given for updating",
                            invalid_attrs, 0)]
        ELSE [sent |-> <<Request("PATCH", "/sites/{id}", site_id, hdrs,
                                 <<[type |-> "site", id |-> site_id,
                                    attributes |-> attributes]>>)>>,
              received |-> <<status>>,
              out |-> IF status # 200
                      THEN Raise("Exception", "Failed to update site", <<>>, status)
                      ELSE Return(PyNone)]

\* lines 222-223, update_site_by_name(site_name, attributes)
update_site_by_name(hdrs, snapshot, site_name, attributes, status, body, patch_status) ==
    LET lookup == get_site_by_name(hdrs, snapshot, site_name, status, body)
        update == update_site_by_id(hdrs, lookup.out.value.id, attributes, patch_status)
    IN  IF lookup.out.kind = "raise"
        THEN lookup
        ELSE [sent |-> lookup.sent \o update.sent,
              received |-> lookup.received \o update.received,
              out |-> update.out,
              data |-> lookup.data]

\* lines 143-146: with both an id and a name, the site is fetched by id and
\* its label compared with the name
CheckSiteIdAndName(hdrs, snapshot, site_id, site_name, by_id) ==
    IF site_id # <<>> /\ site_name # <<>>
    THEN LET site == get_site_by_id(hdrs, site_id[1], by_id.status, by_id.entity)
         IN  [sent |-> site.sent, received |-> site.received, data |-> snapshot,
              out |-> IF site.out.kind = "raise"
                      THEN site.out
                      ELSE IF site.out.value.attributes.label # site_name[1]
                      THEN Raise("ValueError", "Site id and name do not match", <<>>, 0)
                      ELSE Return(PyNone)]
    ELSE Untouched(snapshot)

\* lines 143-161, get_site_configurations(site_id, site_name)
get_site_configurations(hdrs, snapshot, site_id, site_name, by_id, fetch, status, body) ==
    LET check == CheckSiteIdAndName(hdrs, snapshot, site_id, site_name, by_id)
        lookup == IF site_name # <<>>
                  THEN get_site_by_name(hdrs, snapshot, site_name[1],
                                        fetch.status, fetch.body)
                  ELSE Untouched(snapshot)
    IN  IF check.out.kind = "raise"
        THEN check
        ELSE IF site_id = <<>> /\ site_name = <<>>
        THEN [Untouched(snapshot) EXCEPT !.out =
                 Raise("ValueError", "Must provide either site_id or site_name", <<>>, 0)]
        ELSE IF lookup.out.kind = "raise"
        THEN [sent |-> check.sent \o lookup.sent,
              received |-> check.received \o lookup.received,
              out |-> lookup.out,
              data |-> lookup.data]
        ELSE LET id == IF site_name # <<>> THEN lookup.out.value.id ELSE site_id[1]
             IN  [sent |-> check.sent \o lookup.sent
                           \o <<Request("GET", "/sites/{id}/configurations", id, hdrs, <<>>)>>,
                  received |-> check.received \o lookup.received \o <<status>>,
                  out |-> IF status # 200
                          THEN Raise("Exception", "Failed to get configuration",
                                     <<>>, status)
                          ELSE Return(body),
                  data |-> lookup.data]

-----------------------------------------------------------------------------
(* UserInfo.  A value that may be None is <<>> for None and <<value>>      *)
(* otherwise: user_info, user_groups and what the methods return.          *)

NoKeyWarning == "[WARNING]: No user API key found."

\* a check that writes no warning
check_user_api_key_quiet(key, verbose) ==
    [ok |-> key # PyNone, printed |-> <<>>]

\* lines 41-45, _check_user_api_key(verbose)
check_user_api_key(key, verbose) ==
    [ok |-> key # PyNone,
     printed |-> IF key = PyNone /\ verbose THEN <<NoKeyWarning>> ELSE <<>>]

\* lines 59-69, get_user_info()
get_user_info(hdrs, key, status, body) ==
    LET check == check_user_api_key(key, TRUE)
    IN  IF ~check.ok
        THEN [sent |-> <<>>, received |-> <<>>, out |-> Return(<<>>),
              printed |-> check.printed]
        ELSE [sent |-> <<Request("GET", "/user-info", 0, hdrs, <<>>)>>,
              received |-> <<status>>,
              out |-> IF status # 200
                      THEN Raise("Exception", "Failed to get user info", <<>>, status)
                      ELSE Return(<<body>>),
              printed |-> check.printed]

\* lines 81-88, get_all_groups()
get_all_groups(hdrs, status, body) ==
    [sent |-> <<Request("GET", "/permission-groups", 0, hdrs, <<>>)>>,
     received |-> <<status>>,
     out |-> IF status # 200
             THEN Raise("Exception", "Failed to get groups", <<>>, status)
             ELSE Return(<<body>>),
     printed |-> <<>>]

\* lines 103-115, get_user_groups(), on an accessor whose user_info is info,
\* the backend answering /user-info with info_answer and /permission-groups
\* with groups_answer; info is the user_info the call leaves
get_user_groups(hdrs, key, info, info_answer, groups_answer) ==
    LET check == check_user_api_key(key, TRUE)
        fetched == get_user_info(hdrs, key, info_answer.status, info_answer.body)
        all_perm_groups == get_all_groups(hdrs, groups_answer.status, groups_answer.body)
        before == IF info # <<>>
                  THEN [sent |-> <<>>, received |-> <<>>, printed |-> <<>>,
                        out |-> Return(info)]
                  ELSE IF check.ok
                  THEN [fetched EXCEPT !.printed = check.printed \o fetched.printed]
                  ELSE [sent |-> <<>>, received |-> <<>>, printed |-> check.printed,
                        out |-> Return(<<>>)]
    IN  IF (info = <<>> /\ ~check.ok) \/ before.out.kind = "raise"
        THEN [sent |-> before.sent, received |-> before.received,
              printed |-> before.printed, out |-> before.out, info |-> info]
        ELSE IF all_perm_groups.out.kind = "raise"
        THEN [sent |-> before.sent \o all_perm_groups.sent,
              received |-> before.received \o all_perm_groups.received,
              printed |-> before.printed,
              out |-> all_perm_groups.out,
              info |-> before.out.value]
        ELSE LET user_group_ids == before.out.value[1].data.attributes.member
                 user_group_list ==
                     SelectSeq(all_perm_groups.out.value[1].data,
                               LAMBDA group : InList(group.id, user_group_ids))
             IN  [sent |-> before.sent \o all_perm_groups.sent,
                  received |-> before.received \o all_perm_groups.received,
                  printed |-> before.printed,
                  out |-> Return(<<user_group_list>>),
                  info |-> before.out.value]

\* lines 27-29, UserInfo.__init__ after CoreApi.__init__: user_info and
\* user_groups are what the new accessor holds if the construction returns
construct_user_info(hdrs, key, info_answer, groups_answer) ==
    LET first == get_user_info(hdrs, key, info_answer.status, info_answer.body)
        second == get_user_groups(hdrs, key, first.out.value, info_answer, groups_answer)
    IN  IF first.out.kind = "raise"
        THEN [sent |-> first.sent, received |-> first.received, printed |-> first.printed,
              out |-> first.out, user_info |-> <<>>, user_groups |-> <<>>]
        ELSE [sent |-> first.sent \o second.sent,
              received |-> first.received \o second.received,
              printed |-> first.printed \o second.printed,
              out |-> IF second.out.kind = "raise" THEN second.out ELSE Return(PyNone),
              user_info |-> second.info,
              user_groups |-> IF second.out.kind = "raise" THEN <<>> ELSE second.out.value]

-----------------------------------------------------------------------------
(* SpecVis: _check_device_visibility applied to one flag mapping.          *)

\* values a visibility flag is given
FlagValues ==
    {PyBool(TRUE), PyBool(FALSE),
     PyStr(<<"t","r","u","e">>), PyStr(<<"T","R","U","E">>), PyStr(<<"1">>),
     PyStr(<<"f","a","l","s","e">>), PyStr(<<"F","a","l","s","e">>), PyStr(<<"0">>),
     PyStr(<<"y","e","s">>), PyStr(<<>>),
     PyInt(1), PyNone}

FlagMappings ==
    {<<[k |-> "is_private", v |-> a], [k |-> "is_internal", v |-> b],
       [k |-> "is_public", v |-> c]>> : a \in FlagValues, b \in FlagValues, c \in FlagValues}

InitVis ==
    /\ cls = "Devices"
    /\ api_key = PyNone
    /\ headers = MakeHeaders(PyNone)
    /\ all_device_data = <<>>
    /\ all_site_data = <<>>
    /\ \E d \in FlagMappings :
           call = Call("_check_device_visibility", 0, "", d)
    /\ outcome = Pending
    /\ sent = <<>>
    /\ received = <<>>
    /\ parsed = <<>>
    /\ user_info = <<>>
    /\ user_groups = <<>>
    /\ printed = <<>>

CheckDeviceVisibility ==
    /\ cls = "Devices"
    /\ call.op = "_check_device_visibility"
    /\ outcome.kind = "pending"
    /\ outcome' = check_device_visibility(call.attributes)
    /\ UNCHANGED <<cls, api_key, headers, all_device_data, all_site_data, call, sent,
                   received, parsed, user_info, user_groups, printed>>

NextVis == CheckDeviceVisibility

SpecVis == InitVis /\ [][NextVis]_vars

-----------------------------------------------------------------------------
(* SpecCreate: add_device applied to one attributes dict.                  *)

AnyString == PyStr(<<"X">>)

\* the attributes other than the visibility flags that a dict is built from
OtherKeys == {"short_name", "manufacturer_name", "group_ids",
              "not_a_real_attr", "another_bad_attr"}

\* the values a visibility flag is given; Absent leaves the key out of the dict
Absent == [t |-> "absent", b |-> FALSE, s |-> <<>>, n |-> 0]

CreateFlagValues ==
    {Absent, PyBool(TRUE), PyBool(FALSE), PyStr(<<"T","R","U","E">>),
     PyStr(<<"m","a","y","b","e">>), PyInt(1)}

\* the lists of exactly n distinct keys, in every order
RECURSIVE KeyListsOfLen(_)
KeyListsOfLen(n) ==
    IF n = 0
    THEN {<<>>}
    ELSE {Append(p[1], p[2]) :
            p \in {q \in KeyListsOfLen(n - 1) \X OtherKeys : ~InList(q[2], q[1])}}

OtherLists == UNION {KeyListsOfLen(n) : n \in 0..MaxOtherAttrs}

OtherItems(keys) == [i \in 1..Len(keys) |-> [k |-> keys[i], v |-> AnyString]]

FlagItem(key, value) == IF value = Absent THEN <<>> ELSE <<[k |-> key, v |-> value]>>

FlagItems(a, b, c) ==
    FlagItem("is_private", a) \o FlagItem("is_internal", b) \o FlagItem("is_public", c)

ApiKey1 == PyStr(<<"k","1">>)

InitCreate ==
    /\ cls = "Devices"
    /\ api_key = ApiKey1
    /\ headers = MakeHeaders(ApiKey1)
    /\ all_device_data = <<>>
    /\ all_site_data = <<>>
    /\ \E keys \in OtherLists, a, b, c \in CreateFlagValues, flags_first \in BOOLEAN :
           call = Call("add_device", 0, "",
                       IF flags_first
                       THEN FlagItems(a, b, c) \o OtherItems(keys)
                       ELSE OtherItems(keys) \o FlagItems(a, b, c))
    /\ outcome = Pending
    /\ sent = <<>>
    /\ received = <<>>
    /\ parsed = <<>>
    /\ user_info = <<>>
    /\ user_groups = <<>>
    /\ printed = <<>>

AddDeviceOnce ==
    /\ call.op = "add_device"
    /\ outcome.kind = "pending"
    /\ AddDevice(call.attributes)

NextCreate == AddDeviceOnce

SpecCreate == InitCreate /\ [][NextCreate]_vars

-----------------------------------------------------------------------------
(* Spec: one accessor object, a Devices or a Sites, from its construction  *)
(* on, its methods called in any order with any arguments.                 *)

ApiKey2 == PyStr(<<"k","2">>)
EnvKey == PyStr(<<"e","n","v">>)

\* names looked up: two that entities carry and one that none does
LookupNames == Names \cup {"C"}

\* patterns looked up: the empty one, a literal, any character, a literal no
\* name starts with, and one longer than every name
Patterns == {"", "A", ".", "C", "AB"}

\* the attribute dicts handed to an update: up to two of a device-only name,
\* a site-only name and a name in neither allow-list, in every order
UpdateKeys == {"short_name", "label", "not_a_real_attr"}
UpdateDicts ==
    {<<>>}
    \cup {<<[k |-> a, v |-> AnyString]>> : a \in UpdateKeys}
    \cup {<<[k |-> p[1], v |-> AnyString], [k |-> p[2], v |-> AnyString]>> :
            p \in {q \in UpdateKeys \X UpdateKeys : q[1] # q[2]}}

\* the attribute dicts handed to add_device: one that is complete for a public
\* device, one that lacks a required name, one without any flag
SessionCreateDicts ==
    {OtherItems(<<"short_name", "manufacturer_name", "group_ids">>)
        \o FlagItems(Absent, Absent, PyBool(TRUE)),
     OtherItems(<<"short_name">>) \o FlagItems(PyStr(<<"T","R","U","E">>), Absent, Absent),
     OtherItems(<<"short_name", "manufacturer_name">>)}

\* whether an update sends its PATCH, which the backend then answers
ReachesPatch(attributes, allowed) ==
    \A i \in 1..Len(attributes) : InList(attributes[i].k, allowed)

\* core.py lines 28-34 and devices.py line 35, sites.py line 30
Init ==
    /\ cls \in {"Devices", "Sites"}
    /\ api_key = ResolveKey(ApiKey1, PyNone)
    /\ headers = MakeHeaders(ResolveKey(ApiKey1, PyNone))
    /\ all_device_data = <<>>
    /\ all_site_data = <<>>
    /\ call = Call("__init__", 0, "", <<>>)
    /\ outcome = Return(PyNone)
    /\ sent = <<>>
    /\ received = <<>>
    /\ parsed = <<>>
    /\ user_info = <<>>
    /\ user_groups = <<>>
    /\ printed = <<>>

\* the accessor exists: its constructor returned
Constructed == call.op = "__init__" => outcome.kind = "return"

\* core.py lines 36-44, add_api_key(api_key)
AddApiKey ==
    /\ Constructed
    /\ \E key \in {ApiKey1, ApiKey2} : api_key' = key
    /\ call' = Call("add_api_key", 0, "", <<>>)
    /\ outcome' = Return(PyNone)
    /\ sent' = <<>>
    /\ received' = <<>>
    /\ parsed' = <<>>
    /\ printed' = <<>>
    /\ UNCHANGED <<cls, headers, all_device_data, all_site_data,
                   user_info, user_groups>>

GetDevices ==
    /\ cls = "Devices"
    /\ \E answer \in FetchAnswers(TRUE, DeviceEntities) :
          LET r == get_devices(headers, all_device_data, answer.status, answer.body)
          IN  /\ call' = Call("get_devices", 0, "", <<>>)
              /\ outcome' = r.out
              /\ sent' = r.sent
              /\ received' = r.received
              /\ parsed' = ParsedIf(answer.status = 200, answer.body)
              /\ all_device_data' = r.data
    /\ UNCHANGED <<cls, api_key, headers, all_site_data,
                   user_info, user_groups, printed>>

GetDeviceById ==
    /\ cls = "Devices"
    /\ \E device_id \in Ids, status \in Statuses, n \in Names :
          LET r == get_device_by_id(headers, device_id, status,
                                    [id |-> device_id, attributes |-> [short_name |-> n]])
          IN  /\ call' = Call("get_device_by_id", device_id, "", <<>>)
              /\ outcome' = r.out
              /\ sent' = r.sent
              /\ received' = r.received
              /\ parsed' = ParsedIf(status = 200, [data |-> [id |-> device_id, attributes |-> [short_name |-> n]]])
    /\ UNCHANGED <<cls, api_key, headers, all_device_data, all_site_data,
                   user_info, user_groups, printed>>

GetDeviceByName ==
    /\ cls = "Devices"
    /\ \E device_name \in LookupNames,
          answer \in FetchAnswers(all_device_data = <<>>, DeviceEntities) :
          LET r == get_device_by_name(headers, all_device_data, device_name,
                                      answer.status, answer.body)
          IN  /\ call' = Call("get_device_by_name", 0, device_name, <<>>)
              /\ outcome' = r.out
              /\ sent' = r.sent
              /\ received' = r.received
              /\ parsed' = ParsedIf(answer.status = 200, answer.body)
              /\ all_device_data' = r.data
    /\ UNCHANGED <<cls, api_key, headers, all_site_data,
                   user_info, user_groups, printed>>

GetDevicesByName ==
    /\ cls = "Devices"
    /\ \E device_name_pattern \in Patterns,
          answer \in FetchAnswers(all_device_data = <<>>, DeviceEntities) :
          LET r == get_devices_by_name(headers, all_device_data, device_name_pattern,
                                       answer.status, answer.body)
          IN  /\ call' = Call("get_devices_by_name", 0, device_name_pattern, <<>>)
              /\ outcome' = r.out
              /\ sent' = r.sent
              /\ received' = r.received
              /\ parsed' = ParsedIf(answer.status = 200, answer.body)
              /\ all_device_data' = r.data
    /\ UNCHANGED <<cls, api_key, headers, all_site_data,
                   user_info, user_groups, printed>>

UpdateDeviceById ==
    /\ cls = "Devices"
    /\ \E device_id \in Ids, attributes \in UpdateDicts :
       \E status \in Answers(ReachesPatch(attributes, DEVICE_ATTRIBUTES)) :
          LET r == update_device_by_id(headers, device_id, attributes, status)
          IN  /\ call' = Call("update_device_by_id", device_id, "", attributes)
              /\ outcome' = r.out
              /\ sent' = r.sent
              /\ received' = r.received
              /\ parsed' = <<>>
    /\ UNCHANGED <<cls, api_key, headers, all_device_data, all_site_data,
                   user_info, user_groups, printed>>

UpdateDeviceByName ==
    /\ cls = "Devices"
    /\ \E device_name \in LookupNames, attributes \in UpdateDicts,
          answer \in FetchAnswers(all_device_data = <<>>, DeviceEntities) :
       \E patch_status \in Answers(ReachesPatch(attributes, DEVICE_ATTRIBUTES)) :
          LET r == update_device_by_name(headers, all_device_data, device_name,
                                         attributes, answer.status, answer.body,
                                         patch_status)
          IN  /\ call' = Call("update_device_by_name", 0, device_name, attributes)
              /\ outcome' = r.out
              /\ sent' = r.sent
              /\ received' = r.received
              /\ parsed' = ParsedIf(answer.status = 200, answer.body)
              /\ all_device_data' = r.data
    /\ UNCHANGED <<cls, api_key, headers, all_site_data,
                   user_info, user_groups, printed>>

AddDeviceInSession == \E attributes \in SessionCreateDicts : AddDevice(attributes)

GetSites ==
    /\ cls = "Sites"
    /\ \E answer \in FetchAnswers(TRUE, SiteEntities) :
          LET r == get_sites(headers, all_site_data, answer.status, answer.body)
          IN  /\ call' = Call("get_sites", 0, "", <<>>)
              /\ outcome' = r.out
              /\ sent' = r.sent
              /\ received' = r.received
              /\ parsed' = ParsedIf(answer.status = 200, answer.body)
              /\ all_site_data' = r.data
    /\ UNCHANGED <<cls, api_key, headers, all_device_data,
                   user_info, user_groups, printed>>

GetSiteById ==
    /\ cls = "Sites"
    /\ \E site_id \in Ids, status \in Statuses, n \in Names :
          LET r == get_site_by_id(headers, site_id, status,
                                  [id |-> site_id, attributes |-> [label |-> n]])
          IN  /\ call' = Call("get_site_by_id", site_id, "", <<>>)
              /\ outcome' = r.out
              /\ sent' = r.sent
              /\ received' = r.received
              /\ parsed' = ParsedIf(status = 200, [data |-> [id |-> site_id, attributes |-> [label |-> n]]])
    /\ UNCHANGED <<cls, api_key, headers, all_device_data, all_site_data,
                   user_info, user_groups, printed>>

GetSiteByName ==
    /\ cls = "Sites"
    /\ \E site_name \in LookupNames,
          answer \in FetchAnswers(all_site_data = <<>>, SiteEntities) :
          LET r == get_site_by_name(headers, all_site_data, site_name,
                                    answer.status, answer.body)
          IN  /\ call' = Call("get_site_by_name", 0, site_name, <<>>)
              /\ outcome' = r.out
              /\ sent' = r.sent
              /\ received' = r.received
              /\ parsed' = ParsedIf(answer.status = 200, answer.body)
              /\ all_site_data' = r.data
    /\ UNCHANGED <<cls, api_key, headers, all_device_data,
                   user_info, user_groups, printed>>

GetSitesByName ==
    /\ cls = "Sites"
    /\ \E site_name_pattern \in Patterns,
          answer \in FetchAnswers(all_site_data = <<>>, SiteEntities) :
          LET r == get_sites_by_name(headers, all_site_data, site_name_pattern,
                                     answer.status, answer.body)
          IN  /\ call' = Call("get_sites_by_name", 0, site_name_pattern, <<>>)
              /\ outcome' = r.out
              /\ sent' = r.sent
              /\ received' = r.received
              /\ parsed' = ParsedIf(answer.status = 200, answer.body)
              /\ all_site_data' = r.data
    /\ UNCHANGED <<cls, api_key, headers, all_device_data,
                   user_info, user_groups, printed>>

UpdateSiteById ==
    /\ cls = "Sites"
    /\ \E site_id \in Ids, attributes \in UpdateDicts :
       \E status \in Answers(ReachesPatch(attributes, SITE_ATTRIBUTES)) :
          LET r == update_site_by_id(headers, site_id, attributes, status)
          IN  /\ call' = Call("update_site_by_id", site_id, "", attributes)
              /\ outcome' = r.out
              /\ sent' = r.sent
              /\ received' = r.received
              /\ parsed' = <<>>
    /\ UNCHANGED <<cls, api_key, headers, all_device_data, all_site_data,
                   user_info, user_groups, printed>>

UpdateSiteByName ==
    /\ cls = "Sites"
    /\ \E site_name \in LookupNames, attributes \in UpdateDicts,
          answer \in FetchAnswers(all_site_data = <<>>, SiteEntities) :
       \E patch_status \in Answers(ReachesPatch(attributes, SITE_ATTRIBUTES)) :
          LET r == update_site_by_name(headers, all_site_data, site_name,
                                       attributes, answer.status, answer.body,
                                       patch_status)
          IN  /\ call' = Call("update_site_by_name", 0, site_name, attributes)
              /\ outcome' = r.out
              /\ sent' = r.sent
              /\ received' = r.received
              /\ parsed' = ParsedIf(answer.status = 200, answer.body)
              /\ all_site_data' = r.data
    /\ UNCHANGED <<cls, api_key, headers, all_device_data,
                   user_info, user_groups, printed>>

Next ==
    \/ GetDevices
    \/ GetDeviceById
    \/ GetDeviceByName
    \/ GetDevicesByName
    \/ UpdateDeviceById
    \/ UpdateDeviceByName
    \/ AddDeviceInSession
    \/ GetSites
    \/ GetSiteById
    \/ GetSiteByName
    \/ GetSitesByName
    \/ UpdateSiteById
    \/ UpdateSiteByName

Spec == Init /\ [][Next]_vars

-----------------------------------------------------------------------------
(* SpecKey: the API key of an accessor, from construction with any         *)
(* explicit key and any environment key, through add_api_key calls and the *)
(* requests that follow them.                                              *)

InitKey ==
    /\ cls \in {"Devices", "Sites"}
    /\ \E explicit \in {PyNone, PyStr(<<>>), ApiKey1}, env \in {PyNone, EnvKey} :
          /\ api_key = ResolveKey(explicit, env)
          /\ headers = MakeHeaders(ResolveKey(explicit, env))
    /\ all_device_data = <<>>
    /\ all_site_data = <<>>
    /\ call = Call("__init__", 0, "", <<>>)
    /\ outcome = Return(PyNone)
    /\ sent = <<>>
    /\ received = <<>>
    /\ parsed = <<>>
    /\ user_info = <<>>
    /\ user_groups = <<>>
    /\ printed = <<>>

NextKey ==
    \/ AddApiKey
    \/ GetDeviceById
    \/ UpdateDeviceById
    \/ AddDeviceInSession
    \/ GetSiteById
    \/ UpdateSiteById

SpecKey == InitKey /\ [][NextKey]_vars

-----------------------------------------------------------------------------
(* SpecLookup: the properties of a device and the configurations of a      *)
(* site, asked for by id, by name, by both or by neither, on an accessor   *)
(* whose snapshot is absent or was stored by an earlier fetch-all.         *)

\* the arguments a caller gives or leaves None
OptionalIds == {<<>>} \cup {<<i>> : i \in Ids}
OptionalNames == {<<>>} \cup {<<n>> : n \in LookupNames}

\* the answers to a fetch by id: with status 200 an entity with that id, or
\* another status, whose body is never read; no answer if it is not sent
ByIdAnswers(requested, id, entities) ==
    IF requested
    THEN {[status |-> 200, entity |-> e] : e \in {x \in entities : <<x.id>> = id}}
         \cup {[status |-> st, entity |-> NoBody] : st \in Statuses \ {200}}
    ELSE {[status |-> 0, entity |-> NoBody]}

\* whether a call ended in the failure with the message: asked of the call
\* with an answer of status 0, it tells whether the request was sent at all
FailedWith(r, msg) == r.out.kind = "raise" /\ r.out.msg = msg

GetDeviceProperties ==
    /\ cls = "Devices"
    /\ \E device_id \in OptionalIds, device_name \in OptionalNames :
       \E by_id \in ByIdAnswers(device_id # <<>> /\ device_name # <<>>,
                                device_id, DeviceEntities) :
       \E fetch \in FetchAnswers(
                       FailedWith(get_device_properties(
                                      headers, all_device_data, device_id, device_name,
                                      by_id, [status |-> 0, body |-> NoBody], 0, NoBody),
                                  "Failed to get devices"),
                       DeviceEntities) :
       \E status \in Answers(
                       FailedWith(get_device_properties(
                                      headers, all_device_data, device_id, device_name,
                                      by_id, fetch, 0, NoBody),
                                  "Failed to get device properties")) :
          LET r == get_device_properties(headers, all_device_data, device_id, device_name,
                                         by_id, fetch, status, NoBody)
          IN  /\ call' = Call("get_device_properties", device_id, device_name, <<>>)
              /\ outcome' = r.out
              /\ sent' = r.sent
              /\ received' = r.received
              /\ parsed' = ParsedIf(by_id.status = 200, [data |-> by_id.entity])
                            \o ParsedIf(fetch.status = 200, fetch.body)
                            \o ParsedIf(status = 200, NoBody)
              /\ all_device_data' = r.data
    /\ UNCHANGED <<cls, api_key, headers, all_site_data,
                   user_info, user_groups, printed>>

GetSiteConfigurations ==
    /\ cls = "Sites"
    /\ \E site_id \in OptionalIds, site_name \in OptionalNames :
       \E by_id \in ByIdAnswers(site_id # <<>> /\ site_name # <<>>,
                                site_id, SiteEntities) :
       \E fetch \in FetchAnswers(
                       FailedWith(get_site_configurations(
                                      headers, all_site_data, site_id, site_name,
                                      by_id, [status |-> 0, body |-> NoBody], 0, NoBody),
                                  "Failed to get sites"),
                       SiteEntities) :
       \E status \in Answers(
                       FailedWith(get_site_configurations(
                                      headers, all_site_data, site_id, site_name,
                                      by_id, fetch, 0, NoBody),
                                  "Failed to get configuration")) :
          LET r == get_site_configurations(headers, all_site_data, site_id, site_name,
                                           by_id, fetch, status, NoBody)
          IN  /\ call' = Call("get_site_configurations", site_id, site_name, <<>>)
              /\ outcome' = r.out
              /\ sent' = r.sent
              /\ received' = r.received
              /\ parsed' = ParsedIf(by_id.status = 200, [data |-> by_id.entity])
                            \o ParsedIf(fetch.status = 200, fetch.body)
                            \o ParsedIf(status = 200, NoBody)
              /\ all_site_data' = r.data
    /\ UNCHANGED <<cls, api_key, headers, all_device_data,
                   user_info, user_groups, printed>>

NextLookup ==
    \/ GetDevices
    \/ GetDeviceProperties
    \/ GetSites
    \/ GetSiteConfigurations

SpecLookup == Init /\ [][NextLookup]_vars

-----------------------------------------------------------------------------
(* SpecUser: a UserInfo accessor, from its construction with or without a  *)
(* key through calls of its methods and of add_api_key.                    *)

\* the groups the backend knows and the membership lists of a user
GroupEntities == {[id |-> i] : i \in Ids}
MemberLists == {<<>>, <<1>>, <<2, 1>>}
UserDocs == {[data |-> [attributes |-> [member |-> m]]] : m \in MemberLists}

\* the answers to GET /user-info and to GET /permission-groups: a document
\* with status 200, or another status; no answer if the request is not sent
UserInfoAnswers(requested) ==
    IF requested
    THEN {[status |-> 200, body |-> b] : b \in UserDocs}
         \cup {[status |-> st, body |-> NoBody] : st \in Statuses \ {200}}
    ELSE {[status |-> 0, body |-> NoBody]}

\* lines 26-27: the accessor inside UserInfo.__init__, CoreApi.__init__ done
InitUser ==
    /\ cls = "UserInfo"
    /\ \E explicit \in {PyNone, ApiKey1}, env \in {PyNone, EnvKey} :
          /\ api_key = ResolveKey(explicit, env)
          /\ headers = MakeHeaders(ResolveKey(explicit, env))
    /\ all_device_data = <<>>
    /\ all_site_data = <<>>
    /\ user_info = <<>>
    /\ user_groups = <<>>
    /\ call = Call("__init__", 0, "", <<>>)
    /\ outcome = Pending
    /\ sent = <<>>
    /\ received = <<>>
    /\ parsed = <<>>
    /\ printed = <<>>

ConstructUserInfo ==
    /\ cls = "UserInfo"
    /\ call.op = "__init__"
    /\ outcome.kind = "pending"
    /\ \E info_answer \in UserInfoAnswers(api_key # PyNone) :
       \E groups_answer \in FetchAnswers(info_answer.status = 200, GroupEntities) :
          LET r == construct_user_info(headers, api_key, info_answer, groups_answer)
          IN  /\ outcome' = r.out
              /\ sent' = r.sent
              /\ received' = r.received
              /\ parsed' = ParsedIf(info_answer.status = 200, info_answer.body)
                            \o ParsedIf(groups_answer.status = 200, groups_answer.body)
              /\ printed' = r.printed
              /\ user_info' = r.user_info
              /\ user_groups' = r.user_groups
    /\ UNCHANGED <<cls, api_key, headers, all_device_data, all_site_data, call>>

GetUserInfo ==
    /\ cls = "UserInfo"
    /\ Constructed
    /\ \E answer \in UserInfoAnswers(api_key # PyNone) :
          LET r == get_user_info(headers, api_key, answer.status, answer.body)
          IN  /\ call' = Call("get_user_info", 0, "", <<>>)
              /\ outcome' = r.out
              /\ sent' = r.sent
              /\ received' = r.received
              /\ parsed' = ParsedIf(answer.status = 200, answer.body)
              /\ printed' = r.printed
    /\ UNCHANGED <<cls, api_key, headers, all_device_data, all_site_data,
                   user_info, user_groups>>

GetAllGroups ==
    /\ cls = "UserInfo"
    /\ Constructed
    /\ \E answer \in FetchAnswers(TRUE, GroupEntities) :
          LET r == get_all_groups(headers, answer.status, answer.body)
          IN  /\ call' = Call("get_all_groups", 0, "", <<>>)
              /\ outcome' = r.out
              /\ sent' = r.sent
              /\ received' = r.received
              /\ parsed' = ParsedIf(answer.status = 200, answer.body)
              /\ printed' = r.printed
    /\ UNCHANGED <<cls, api_key, headers, all_device_data, all_site_data,
                   user_info, user_groups>>

GetUserGroups ==
    /\ cls = "UserInfo"
    /\ Constructed
    /\ \E info_answer \in UserInfoAnswers(user_info = <<>> /\ api_key # PyNone) :
       \E groups_answer \in FetchAnswers(
                               \/ user_info # <<>>
                               \/ info_answer.status = 200,
                               GroupEntities) :
          LET r == get_user_groups(headers, api_key, user_info, info_answer, groups_answer)
          IN  /\ call' = Call("get_user_groups", 0, "", <<>>)
              /\ outcome' = r.out
              /\ sent' = r.sent
              /\ received' = r.received
              /\ parsed' = ParsedIf(info_answer.status = 200, info_answer.body)
                            \o ParsedIf(groups_answer.status = 200, groups_answer.body)
              /\ printed' = r.printed
              /\ user_info' = r.info
    /\ UNCHANGED <<cls, api_key, headers, all_device_data, all_site_data, user_groups>>

NextUser ==
    \/ ConstructUserInfo
    \/ GetUserInfo
    \/ GetAllGroups
    \/ GetUserGroups
    \/ AddApiKey

SpecUser == InitUser /\ [][NextUser]_vars

-----------------------------------------------------------------------------
(* The vocabulary of the properties.                                       *)

FlagNames == {"is_private", "is_internal", "is_public"}

\* chars spells word in some mix of upper and lower case
IsCaseVariant(chars, word) ==
    /\ Len(chars) = Len(word)
    /\ \A i \in 1..Len(word) :
          \/ chars[i] = word[i]
          \/ \E j \in 1..Len(LowerCase) : LowerCase[j] = word[i] /\ UpperCase[j] = chars[i]

SaysTrue(value) ==
    value.t = "str" /\ (IsCaseVariant(value.s, <<"t","r","u","e">>) \/ value.s = <<"1">>)
SaysFalse(value) ==
    value.t = "str" /\ (IsCaseVariant(value.s, <<"f","a","l","s","e">>) \/ value.s = <<"0">>)
BadString(value) == value.t = "str" /\ ~SaysTrue(value) /\ ~SaysFalse(value)
NeitherBoolNorString(value) == value.t \notin {"bool", "str"}
WellFormed(value) == value.t = "bool" \/ SaysTrue(value) \/ SaysFalse(value)
CoercesTrue(value) == (value.t = "bool" /\ value.b) \/ SaysTrue(value)

AllWellFormed(d) == \A key \in FlagNames : HasKey(d, key) /\ WellFormed(DictGet(d, key))
TrueFlags(d) == {key \in FlagNames : HasKey(d, key) /\ CoercesTrue(DictGet(d, key))}

\* the failures of the error taxonomy, as the exceptions the code raises
NoVisibilitySet(o) ==
    o.kind = "raise" /\ o.exc = "ValueError" /\ o.msg = "No visibilities defined as true"
ConflictingVisibility(o) ==
    o.kind = "raise" /\ o.exc = "ValueError" /\ o.msg = "Multiple visibilities defined as true"
InvalidAttributeType(o) == o.kind = "raise" /\ o.exc = "TypeError"
InvalidAttributeValue(o) ==
    o.kind = "raise" /\ o.exc = "ValueError" /\ o.msg = "Invalid boolean string value"
InvalidAttribute(o) ==
    o.kind = "raise" /\ o.exc = "ValueError"
    /\ o.msg \in {"Invalid attribute given", "Invalid attributes given for updating"}
MissingRequiredAttributes(o) ==
    o.kind = "raise" /\ o.exc = "ValueError" /\ o.msg = "Missing required attributes"
RequestFailed(o) == o.kind = "raise" /\ o.exc = "Exception"

Classified == call.op = "_check_device_visibility" /\ outcome.kind # "pending"
Created == call.op = "add_device" /\ outcome.kind # "pending"

-----------------------------------------------------------------------------
(* Visibility classification.                                              *)

\* C1: when the three flags are well-formed and exactly one of them coerces to
\* true, classification returns that flag's class and raises nothing.
C1_OneTrueFlagClassifies ==
    (Classified /\ AllWellFormed(call.attributes)
        /\ Cardinality(TrueFlags(call.attributes)) = 1)
    => (outcome.kind = "return" /\ TrueFlags(call.attributes) = {outcome.value})

\* the scenario {is_private: "TRUE", is_internal: "0", is_public: false}
C1_Witness ==
    /\ Classified
    /\ DictGet(call.attributes, "is_private") = PyStr(<<"T","R","U","E">>)
    /\ DictGet(call.attributes, "is_internal") = PyStr(<<"0">>)
    /\ DictGet(call.attributes, "is_public") = PyBool(FALSE)
    /\ outcome.kind = "return"
    /\ outcome.value = "is_private"

\* C2: when the three flags are well-formed and none coerces to true,
\* classification fails with NoVisibilitySet and returns no class.
C2_NoTrueFlagFails ==
    (Classified /\ AllWellFormed(call.attributes) /\ TrueFlags(call.attributes) = {})
    => NoVisibilitySet(outcome)

C2_Witness ==
    /\ Classified
    /\ DictGet(call.attributes, "is_private") = PyStr(<<"F","a","l","s","e">>)
    /\ DictGet(call.attributes, "is_internal") = PyStr(<<"0">>)
    /\ DictGet(call.attributes, "is_public") = PyBool(FALSE)
    /\ NoVisibilitySet(outcome)

\* C3: when the three flags are well-formed and two or three coerce to true,
\* classification fails with ConflictingVisibility and the keys it reports are
\* exactly the true flags, each once.
C3_ConflictListsTrueKeys ==
    (Classified /\ AllWellFormed(call.attributes)
        /\ Cardinality(TrueFlags(call.attributes)) >= 2)
    => /\ ConflictingVisibility(outcome)
       /\ Range(outcome.names) = TrueFlags(call.attributes)
       /\ Len(outcome.names) = Cardinality(TrueFlags(call.attributes))

C3_Witness ==
    /\ Classified
    /\ DictGet(call.attributes, "is_private") = PyStr(<<"1">>)
    /\ DictGet(call.attributes, "is_internal") = PyBool(FALSE)
    /\ DictGet(call.attributes, "is_public") = PyBool(TRUE)
    /\ ConflictingVisibility(outcome)
    /\ Range(outcome.names) = {"is_private", "is_public"}

\* the first flag, in the order the flags are examined, whose value is malformed
ExaminedOrder == <<"is_public", "is_internal", "is_private">>
Malformed(d) == {i \in 1..Len(ExaminedOrder) : ~WellFormed(DictGet(d, ExaminedOrder[i]))}
FirstMalformed(d) ==
    ExaminedOrder[CHOOSE i \in Malformed(d) : \A j \in Malformed(d) : i <= j]

\* C4 as stated: a flag that is a string other than true/1/false/0 makes
\* classification fail with InvalidAttributeType, and a flag that is neither a
\* boolean nor a string makes it fail with InvalidAttributeValue, whatever the
\* other flags are.
C4_AsStated ==
    Classified =>
        \A key \in FlagNames :
            /\ BadString(DictGet(call.attributes, key)) => InvalidAttributeType(outcome)
            /\ NeitherBoolNorString(DictGet(call.attributes, key))
                  => InvalidAttributeValue(outcome)

\* C4 amended: when some flag is malformed no class is returned, and the first
\* malformed flag in the order is_public, is_internal, is_private decides the
\* failure and is the key reported: InvalidAttributeValue (a ValueError) when
\* it is a string other than true/1/false/0, InvalidAttributeType (a
\* TypeError) when it is neither a boolean nor a string.
C4_FirstMalformedFlagDecides ==
    (Classified /\ Malformed(call.attributes) # {})
    => LET key == FirstMalformed(call.attributes)
           value == DictGet(call.attributes, key)
       IN  /\ outcome.kind = "raise"
           /\ outcome.names = <<key>>
           /\ BadString(value) => InvalidAttributeValue(outcome)
           /\ NeitherBoolNorString(value) => InvalidAttributeType(outcome)

\* is_private is a bad string and is_public, examined first, is an int
C4_Witness ==
    /\ Classified
    /\ DictGet(call.attributes, "is_private") = PyStr(<<"y","e","s">>)
    /\ DictGet(call.attributes, "is_internal") = PyBool(TRUE)
    /\ DictGet(call.attributes, "is_public") = PyInt(1)
    /\ InvalidAttributeType(outcome)
    /\ outcome.names = <<"is_public">>

-----------------------------------------------------------------------------
(* Device creation.                                                        *)

\* C5: a create request that carries none of the three flags fails with
\* NoVisibilitySet, whatever its other attributes, and issues no POST.
C5_NoFlagsCreateFails ==
    (Created /\ \A key \in FlagNames : ~HasKey(call.attributes, key))
    => (NoVisibilitySet(outcome) /\ sent = <<>>)

\* a flagless request that has everything a private device needs and an
\* attribute that is not allowed
C5_Witness ==
    /\ Created
    /\ Keys(call.attributes) = <<"short_name", "not_a_real_attr", "manufacturer_name">>
    /\ NoVisibilitySet(outcome)
    /\ sent = <<>>
    /\ \A key \in FlagNames : DictGet(call.mutated, key) = PyBool(FALSE)

\* the minimum-required names of a visibility class
RequiredOf(flag) ==
    CASE flag = "is_private" -> Range(MIN_PRIVATE_DEVICE_ATTRIBUTES)
      [] flag = "is_internal" -> Range(MIN_INTERNAL_DEVICE_ATTRIBUTES)
      [] flag = "is_public" -> Range(MIN_PUBLIC_DEVICE_ATTRIBUTES)

\* the request's visibility classifies: after the defaults are filled in the
\* flags are well-formed and exactly one is true
ClassifiesAs(flag) ==
    AllWellFormed(call.mutated) /\ TrueFlags(call.mutated) = {flag}

AbsentRequired(flag) == RequiredOf(flag) \ Range(Keys(call.mutated))

\* C6: when the visibility classifies and every key is allowed, the create
\* fails with MissingRequiredAttributes exactly when a required name of the
\* class is absent from the dict's keys (the keys the dict has once the flag
\* defaults are written into it), and it lists exactly the absent names.
C6_MissingRequiredExactly ==
    \A flag \in FlagNames :
        (Created /\ ClassifiesAs(flag)
            /\ Range(Keys(call.mutated)) \subseteq Range(DEVICE_ATTRIBUTES))
        => /\ MissingRequiredAttributes(outcome) <=> AbsentRequired(flag) # {}
           /\ MissingRequiredAttributes(outcome)
                 => /\ Range(outcome.names) = AbsentRequired(flag)
                    /\ Len(outcome.names) = Cardinality(AbsentRequired(flag))

\* the scenario {short_name, manufacturer_name, is_public: true}
C6_Witness ==
    /\ Created
    /\ call.attributes = <<[k |-> "short_name", v |-> AnyString],
                           [k |-> "manufacturer_name", v |-> AnyString],
                           [k |-> "is_public", v |-> PyBool(TRUE)]>>
    /\ MissingRequiredAttributes(outcome)
    /\ outcome.names = <<"group_ids">>
    /\ sent = <<>>

\* the keys of the dict that are not in the device allow-list
OffendingDeviceKeys(d) == Range(Keys(d)) \ Range(DEVICE_ATTRIBUTES)

\* C7: the allow-list check fails with InvalidAttribute exactly when some key
\* is outside the allow-list, and the failure reports every offending key;
\* here for the check that device create runs once the visibility classified.
C7_CreateReportsEveryOffendingKey ==
    (Created /\ \E flag \in FlagNames : ClassifiesAs(flag))
    => /\ InvalidAttribute(outcome) <=> OffendingDeviceKeys(call.mutated) # {}
       /\ InvalidAttribute(outcome)
             => Range(outcome.names) = OffendingDeviceKeys(call.mutated)

-----------------------------------------------------------------------------
(* Updates and requests.                                                   *)

UpdateOps == {"update_device_by_id", "update_device_by_name",
              "update_site_by_id", "update_site_by_name"}
ByNameOps == {"update_device_by_name", "update_site_by_name"}

\* the allow-list of the entity kind a call is about
AllowListOf(op) ==
    IF op \in {"update_device_by_id", "update_device_by_name", "add_device"}
    THEN Range(DEVICE_ATTRIBUTES)
    ELSE Range(SITE_ATTRIBUTES)

Offending(c) == Range(Keys(c.attributes)) \ AllowListOf(c.op)

NotFound(o) ==
    o.kind = "raise" /\ o.exc = "ValueError"
    /\ o.msg \in {"Failed to find device with name", "Failed to find site with name",
                 "Failed to find site matching pattern"}

Methods(requests) == [i \in 1..Len(requests) |-> requests[i].method]

\* C8 as stated: an update, by id or by name, with a key outside the allow-list
\* fails with InvalidAttribute and has issued no request, no GET and no PATCH,
\* also when it is addressed by name and the snapshot is absent.
C8_AsStated ==
    (call.op \in UpdateOps /\ Offending(call) # {})
    => (InvalidAttribute(outcome) /\ sent = <<>>)

\* the snapshot of the accessor
Snapshot == IF cls = "Devices" THEN all_device_data ELSE all_site_data

\* whether some entry of the snapshot carries the name
Carries(snapshot, name) ==
    \E i \in 1..Len(snapshot[1].data) :
        IF cls = "Devices"
        THEN snapshot[1].data[i].attributes.short_name = name
        ELSE snapshot[1].data[i].attributes.label = name

\* C8 amended: an update with a key outside the allow-list never sends a
\* PATCH.  Addressed by id it fails with InvalidAttribute before any request.
\* Addressed by name it resolves the name first: it issues the fetch-all GET,
\* and nothing else, exactly when the snapshot is absent at the start of the
\* call, and it fails with RequestFailed if that GET fails, with NotFound if
\* no entry of the snapshot carries the name, and with InvalidAttribute
\* otherwise.
C8_StepProperty ==
    (call'.op \in UpdateOps /\ Offending(call') # {})
    => /\ \A i \in 1..Len(sent') : sent'[i].method # "PATCH"
       /\ call'.op \notin ByNameOps => (InvalidAttribute(outcome') /\ sent' = <<>>)
       /\ call'.op \in ByNameOps =>
             /\ Methods(sent') = IF Snapshot = <<>> THEN <<"GET">> ELSE <<>>
             /\ \A i \in 1..Len(sent') : sent'[i].url.path \in {"/devices", "/sites"}
             /\ IF received' # <<>> /\ received'[1] # 200
                THEN RequestFailed(outcome')
                ELSE IF ~Carries(Snapshot', call'.name)
                THEN NotFound(outcome')
                ELSE InvalidAttribute(outcome')

C8_NoPatchForOffendingUpdate == [][C8_StepProperty]_vars

\* an update by name with an offending key that fetched the collection and
\* then failed on the key
C8_Witness ==
    /\ call.op = "update_device_by_name"
    /\ Offending(call) = {"not_a_real_attr"}
    /\ Methods(sent) = <<"GET">>
    /\ received = <<200>>
    /\ InvalidAttribute(outcome)

\* the one status that is a success for a method
SuccessStatus(method) == IF method = "POST" THEN 201 ELSE 200

\* C9: each request is answered once and checked against the one success
\* status of its method (GET 200, POST 201, PATCH 200); after any other status
\* the call sends nothing more and fails with RequestFailed carrying that
\* status, and a fetch-all that fails leaves the snapshot as it was.
C9_StepProperty ==
    /\ Len(received') = Len(sent')
    /\ \A i \in 1..Len(sent') :
          received'[i] # SuccessStatus(sent'[i].method)
          => /\ i = Len(sent')
             /\ RequestFailed(outcome')
             /\ outcome'.status = received'[i]
    /\ RequestFailed(outcome')
       => (sent' # <<>> /\ received'[Len(sent')] # SuccessStatus(sent'[Len(sent')].method))
    /\ (RequestFailed(outcome') /\ sent' # <<>>
            /\ sent'[Len(sent')].url.path \in {"/devices", "/sites"}
            /\ sent'[Len(sent')].method = "GET")
       => (all_device_data' = all_device_data /\ all_site_data' = all_site_data)

C9_OtherStatusFailsOnce == [][C9_StepProperty]_vars

\* a fetch-all GET answered with 404 when a snapshot is already stored
C9_Witness ==
    /\ call.op = "get_devices"
    /\ Methods(sent) = <<"GET">>
    /\ received = <<404>>
    /\ RequestFailed(outcome)
    /\ outcome.status = 404
    /\ all_device_data # <<>>

\* C10: the API-key header is the current api_key, in the accessor's headers
\* and in every request it sends, also after add_api_key.
C10_HeaderFollowsApiKey ==
    /\ headers.x_apikey = api_key
    /\ \A i \in 1..Len(sent) : sent[i].headers.x_apikey = api_key

-----------------------------------------------------------------------------
(* The memoized snapshot.                                                  *)

FetchAllOps == {"get_devices", "get_sites"}
LookupOps == {"get_device_by_name", "get_devices_by_name",
              "get_site_by_name", "get_sites_by_name"}

\* the fetch-all GETs among the requests
FetchAlls(requests) ==
    {i \in 1..Len(requests) :
        requests[i].method = "GET" /\ requests[i].url.path \in {"/devices", "/sites"}}

\* C11 as stated: a by-name or by-pattern lookup issues the fetch-all GET only
\* when the snapshot is absent, and the snapshot changes in no call but a
\* successful explicit fetch-all: every other call, a by-name or by-pattern
\* lookup included, leaves it as it was.
C11_AsStatedStep ==
    /\ (call'.op \in LookupOps /\ FetchAlls(sent') # {}) => Snapshot = <<>>
    /\ Snapshot' # Snapshot
          => (call'.op \in FetchAllOps /\ outcome'.kind = "return")

C11_AsStated == [][C11_AsStatedStep]_vars

\* C11 amended: a call that resolves a name or a pattern (a lookup, or an
\* update by name) issues the fetch-all GET exactly when the snapshot is absent
\* at its start, once and before anything else, and issues none when the
\* snapshot is populated.  A populated snapshot changes only in an explicit
\* fetch-all answered with 200.  An absent snapshot becomes populated only by
\* a fetch-all GET answered with 200, sent by an explicit fetch-all or by a
\* name-resolving call.  Fetch-by-id, update-by-id, create and every call
\* whose fetch-all GET fails leave the snapshot as it was.
C11_StepProperty ==
    /\ call'.op \in LookupOps \cup ByNameOps
          => FetchAlls(sent') = (IF Snapshot = <<>> THEN {1} ELSE {})
    /\ (Snapshot # <<>> /\ Snapshot' # Snapshot)
          => (call'.op \in FetchAllOps /\ outcome'.kind = "return"
              /\ received' = <<200>>)
    /\ (Snapshot = <<>> /\ Snapshot' # <<>>)
          => (call'.op \in FetchAllOps \cup LookupOps \cup ByNameOps
              /\ FetchAlls(sent') = {1} /\ received'[1] = 200)
    /\ (FetchAlls(sent') # {} /\ received'[1] # 200)
          => (Snapshot' = Snapshot /\ RequestFailed(outcome'))
    /\ call'.op \notin FetchAllOps \cup LookupOps \cup ByNameOps
          => Snapshot' = Snapshot

C11_SnapshotChangesOnlyByFetchAll == [][C11_StepProperty]_vars

\* a pattern lookup answered from a populated snapshot, without any request
C11_Witness ==
    /\ call.op = "get_devices_by_name"
    /\ call.name = "."
    /\ all_device_data # <<>>
    /\ Len(all_device_data[1].data) = 2
    /\ sent = <<>>
    /\ outcome.kind = "return"
    /\ Len(outcome.value) = 2

-----------------------------------------------------------------------------
(* Exact-name lookup.                                                      *)

ExactLookupOps == {"get_device_by_name", "get_site_by_name"}

\* the designated name field of an entity: short_name of a device, label of a site
NameField(entity) ==
    IF cls = "Devices" THEN entity.attributes.short_name ELSE entity.attributes.label

\* the positions of the snapshot entries whose name field equals the target
MatchesOf(target) ==
    {i \in 1..Len(Snapshot[1].data) : NameField(Snapshot[1].data[i]) = target}

\* C14: an exact-name lookup over a populated snapshot returns the first entry,
\* in snapshot order, whose name field equals the target, and fails with
\* NotFound if and only if no entry matches.
C14_ExactLookupReturnsFirstMatch ==
    (call.op \in ExactLookupOps /\ Snapshot # <<>> /\ ~RequestFailed(outcome))
    => /\ NotFound(outcome) <=> MatchesOf(call.name) = {}
       /\ MatchesOf(call.name) # {}
             => /\ outcome.kind = "return"
                /\ \E i \in MatchesOf(call.name) :
                      /\ \A j \in MatchesOf(call.name) : i <= j
                      /\ outcome.value = Snapshot[1].data[i]

\* the lookup of "B" in the stored snapshot [{id 1, A}, {id 2, B}]
C14_Witness ==
    /\ call.op = "get_device_by_name"
    /\ call.name = "B"
    /\ sent = <<>>
    /\ all_device_data # <<>>
    /\ all_device_data[1].data = <<[id |-> 1, attributes |-> [short_name |-> "A"]],
                                   [id |-> 2, attributes |-> [short_name |-> "B"]]>>
    /\ outcome.kind = "return"
    /\ outcome.value.id = 2

-----------------------------------------------------------------------------
(* The minimum-required lists.                                             *)

\* C15: what is required of a private device is required of an internal one,
\* what is required of an internal device is required of a public one, and
\* every required attribute is in the device allow-list; so a device created
\* under one visibility carries what every weaker visibility requires.
C15_SupersetLaw ==
    /\ Range(MinReqs("is_private")) \subseteq Range(MinReqs("is_internal"))
    /\ Range(MinReqs("is_internal")) \subseteq Range(MinReqs("is_public"))
    /\ Range(MinReqs("is_public")) \subseteq Range(DEVICE_ATTRIBUTES)
    /\ (Created /\ outcome.kind = "return")
          => /\ ClassifiesAs("is_public")
                   => Range(MinReqs("is_internal")) \subseteq Range(Keys(call.mutated))
             /\ (ClassifiesAs("is_public") \/ ClassifiesAs("is_internal"))
                   => Range(MinReqs("is_private")) \subseteq Range(Keys(call.mutated))

\* a public device was created
C15_Witness ==
    /\ Created
    /\ outcome.kind = "return"
    /\ ClassifiesAs("is_public")
    /\ Methods(sent) = <<"POST">>
    /\ received = <<201>>

-----------------------------------------------------------------------------
(* The order of the steps of device create.                                *)

\* a failure of the visibility classification
VisibilityFailure(o) ==
    \/ NoVisibilitySet(o)
    \/ ConflictingVisibility(o)
    \/ InvalidAttributeType(o)
    \/ InvalidAttributeValue(o)

\* the three checks of create, on the dict with the defaults filled in
VisibilityPasses == \E flag \in FlagNames : ClassifiesAs(flag)
AllowListPasses == OffendingDeviceKeys(call.mutated) = {}
RequiredPasses == \A flag \in FlagNames : ClassifiesAs(flag) => AbsentRequired(flag) = {}

\* C16: create fills the defaults, classifies the visibility, checks the
\* allow-list, checks the minimum-required attributes and then sends the POST.
\* A POST is sent only if the three checks pass, and its body carries the
\* filled dict; when several checks would fail, the failure reported is that
\* of the earliest step.
C16_CreateStepOrder ==
    Created
    => /\ \A key \in FlagNames : HasKey(call.mutated, key)
       /\ sent # <<>>
             => /\ Methods(sent) = <<"POST">>
                /\ sent[1].body[1].attributes = call.mutated
                /\ VisibilityPasses /\ AllowListPasses /\ RequiredPasses
       /\ (VisibilityPasses /\ AllowListPasses /\ RequiredPasses) => sent # <<>>
       /\ ~VisibilityPasses => VisibilityFailure(outcome)
       /\ (VisibilityPasses /\ ~AllowListPasses) => InvalidAttribute(outcome)
       /\ (VisibilityPasses /\ AllowListPasses /\ ~RequiredPasses)
             => MissingRequiredAttributes(outcome)

\* a create that fails all three checks and reports the visibility failure
C16_Witness ==
    /\ Created
    /\ ~VisibilityPasses
    /\ ~AllowListPasses
    /\ "short_name" \notin Range(Keys(call.mutated))
    /\ VisibilityFailure(outcome)
    /\ sent = <<>>

-----------------------------------------------------------------------------
(* Helpers that take an id, a name or both.                                *)

EitherOps == {"get_device_properties", "get_site_configurations"}

IdentifierMismatch(o) ==
    o.kind = "raise" /\ o.exc = "ValueError"
    /\ o.msg \in {"Device id and name do not match", "Site id and name do not match"}

NeitherGiven(o) ==
    o.kind = "raise" /\ o.exc = "ValueError"
    /\ o.msg \in {"Must provide either device_id or device_name",
                 "Must provide either site_id or site_name"}

\* the request fetches one entity by its id
IsFetchById(request) ==
    request.method = "GET" /\ request.url.path \in {"/devices/{id}", "/sites/{id}"}

\* the request asks for the properties of a device, the configurations of a site
IsDetailRequest(request) ==
    /\ request.method = "GET"
    /\ request.url.path \in {"/device-properties?filter[device_id]={id}",
                            "/sites/{id}/configurations"}

DetailRequests == {i \in 1..Len(sent) : IsDetailRequest(sent[i])}

\* the call was given both an id and a name and its fetch by id was answered
\* with an entity
BothGivenAndFetched ==
    /\ call.op \in EitherOps
    /\ call.id # <<>> /\ call.name # <<>>
    /\ received # <<>> /\ received[1] = 200

\* C12: given both an id and a name, the helper first fetches the entity by
\* that id and compares its name field with the name; if they differ it fails
\* with IdentifierMismatch and no properties or configurations request is
\* sent.  Given neither, it fails without sending any request.
C12_BothGivenAreCompared ==
    call.op \in EitherOps
    => /\ (call.id # <<>> /\ call.name # <<>>)
             => /\ sent # <<>>
                /\ IsFetchById(sent[1])
                /\ sent[1].url.id = call.id[1]
       /\ BothGivenAndFetched
             => /\ IdentifierMismatch(outcome)
                      <=> NameField(parsed[1].data) # call.name[1]
                /\ IdentifierMismatch(outcome)
                      => (Len(sent) = 1 /\ DetailRequests = {})
       /\ IdentifierMismatch(outcome) => BothGivenAndFetched
       /\ (call.id = <<>> /\ call.name = <<>>) => (NeitherGiven(outcome) /\ sent = <<>>)

\* device 1 is fetched, carries the name A, and was asked for under the name B
C12_Witness ==
    /\ call.op = "get_device_properties"
    /\ call.id = <<1>>
    /\ call.name = <<"B">>
    /\ received = <<200>>
    /\ parsed[1].data.attributes.short_name = "A"
    /\ IdentifierMismatch(outcome)
    /\ Len(sent) = 1

\* C17: when both an id and a name are given and the entity fetched by that id
\* carries the name, every properties or configurations request the call
\* sends is for the id given, whatever the snapshot contains.
C17_RequestIsForTheGivenId ==
    (BothGivenAndFetched /\ NameField(parsed[1].data) = call.name[1])
    => \A i \in DetailRequests : sent[i].url.id = call.id[1]

-----------------------------------------------------------------------------
(* The user accessor without an API key.                                   *)

\* the constructor or get_user_groups has run on an accessor without a key
GroupsAskedWithoutKey ==
    /\ cls = "UserInfo"
    /\ api_key = PyNone
    /\ call.op \in {"__init__", "get_user_groups"}
    /\ outcome.kind # "pending"

\* C13: without an API key, constructing the user accessor and calling
\* get_user_groups do not fail: the warning is written, the result is None,
\* user_info stays None and no request is sent.
C13_NoKeyGroupsAreNone ==
    GroupsAskedWithoutKey
    => /\ outcome.kind = "return"
       /\ printed # <<>>
       /\ \A i \in 1..Len(printed) : printed[i] = NoKeyWarning
       /\ call.op = "get_user_groups" => outcome.value = <<>>
       /\ user_groups = <<>>
       /\ user_info = <<>>
       /\ sent = <<>>

\* get_user_groups called on an accessor that was constructed without a key
C13_Witness ==
    /\ GroupsAskedWithoutKey
    /\ call.op = "get_user_groups"
    /\ outcome.kind = "return"
    /\ outcome.value = <<>>
    /\ printed = <<NoKeyWarning>>
    /\ sent = <<>>

====
